---- MODULE Spec2Model ----
(***************************************************************************)
(* Model of ServerAsyncWorker (dicom-dimse-native): the orchestration of   *)
(* one DICOM listener run, Execute = InitializeAndValidateInput ->         *)
(* HandleDirectory -> InitializeNetwork -> HandleStoreOnly or              *)
(* HandleQueryRetrieve -> ShutdownNetwork.                                 *)
(*                                                                         *)
(* The repository holds two variants of the orchestration:                 *)
(*   "cc"    src/src/ServerAsyncWorker.cc                                  *)
(*   "part0" src/unnamed/part_000                                          *)
(* The variable `variant` fixes which one the process was built from.      *)
(* Several runs (workers queued by StartScp) live in one process and share *)
(* the function-local statics, the privilege state and the handle table.   *)
(*                                                                         *)
(* Paths are sequences of tokens, "/" being the path separator, so that    *)
(* OFStandard::normalizeDirName is modelled by what it does.               *)
(***************************************************************************)
EXTENDS Integers, Sequences, FiniteSets, TLC

VARIABLES
    variant,      \* which source variant the process runs
    dictLoaded,   \* dcmDataDict.isDictionaryLoaded()
    fs,           \* file system: normalized directory -> "missing"|"readonly"|"writable"
    hdStatic,     \* static opt_outputDirectory of HandleDirectory: [init, val]
    soStatic,     \* static opt_outputDirectory of HandleStoreOnly (variant cc): [init, val]
    privDrops,    \* number of OFStandard::dropPrivileges() calls in the process
    handles,      \* every T_ASC_Network ever created: [role, owner, drops, usedAfterDrop]
    pc,           \* per run: position of Execute
    input,        \* per run: the configuration handed to StartScp (_input)
    in,           \* per run: ns::sInput in, as Execute holds it
    net,          \* per run: T_ASC_Network *net of Execute
    reqNet,       \* per run: T_ASC_Network *network (requestor) created in the run
    options,      \* per run: DcmQueryRetrieveOptions of HandleQueryRetrieve, with the
                  \* peers added to its DcmQueryRetriveConfigExt (cfgPeers)
    mode,         \* per run: service handler entered ("none"|"storeOnly"|"queryRetrieve")
    waits,        \* per run: number of waitForAssociation calls
    errors,       \* per run: SetErrorJson messages, in order
    infos,        \* per run: SendInfo messages, in order
    trace,        \* per run: calls made, in order
    checkedDir,   \* per run: directory HandleDirectory checked (<<>>: none)
    scpDir,       \* per run: directory handed to RetrieveScp (<<>>: none)
    conds         \* per run: cond.good() of each waitForAssociation, in order

vars == <<variant, dictLoaded, fs, hdStatic, soStatic, privDrops, handles, pc,
          input, in, net, reqNet, options, mode, waits, errors, infos, trace,
          checkedDir, scpDir, conds>>

---------------------------------------------------------------------------
(* Bounds *)

\* number of waitForAssociation calls per run that may return a good condition
MaxAssoc == 1

\* the runs queued through StartScp in one process: two, the least number
\* that shares the statics, the privilege state and the handle table
Runs == {1, 2}

\* the run queued first
FirstRun == CHOOSE r \in Runs : \A s \in Runs : r <= s

---------------------------------------------------------------------------
(* Program constants *)

\* T_ASC_Network *network = NULL;
NullHandle == 0

\* T_ASC_Network *net; (declared without initializer in Execute)
Uninit == -1

\* options.maxAssociations_ = 128;
MaxAssociations == 128

\* in.storagePath = "./data";
DefaultStoragePath == <<".", "/", "data">>

\* the "." sentinel of HandleDirectory
CurrentDir == <<".">>

Variants == {"cc", "part0"}

---------------------------------------------------------------------------
(* Inputs *)

Paths == { <<>>, <<".">>, <<"/", "a">>, <<"/", "a", "/">> }

Dirs == { CurrentDir, DefaultStoragePath, <<"/", "a">> }

Sources == { [aet |-> "", port |-> 104], [aet |-> "AE1", port |-> 104] }

\* in.netTransferPrefer, in.netTransferPropose, in.writeTransfer: not given,
\* the UID of a transfer syntax DcmXfer knows, a string that names none
XferStrings == {"", "1.2.840.10008.1.2.1", "no-such-syntax"}

\* in.peers
PeerLists == { <<>>, <<[aet |-> "PEER1", ip |-> "10.0.0.1", port |-> 104]>> }

\* the inputs of the runs of the whole orchestration: no transfer syntax and
\* no peer is configured
Inputs ==
    [source : Sources, storagePath : Paths, storeOnly : BOOLEAN,
     netTransferPrefer : {""}, netTransferPropose : {""}, writeTransfer : {""},
     peers : {<<>>}]

\* query/retrieve inputs with every combination of transfer syntax strings
\* and peer lists
QueryRetrieveInputs ==
    [source : {[aet |-> "AE1", port |-> 104]}, storagePath : {<<>>}, storeOnly : {FALSE},
     netTransferPrefer : XferStrings, netTransferPropose : XferStrings,
     writeTransfer : XferStrings, peers : PeerLists]

\* store-only inputs whose storage path may also be "./", a name of the
\* working directory that is not the literal "."
DirectoryPaths == Paths \cup { <<".", "/">> }

DirectoryInputs ==
    [source : {[aet |-> "AE1", port |-> 104]}, storagePath : DirectoryPaths,
     storeOnly : {TRUE},
     netTransferPrefer : {""}, netTransferPropose : {""}, writeTransfer : {""},
     peers : {<<>>}]

NoInput ==
    [source |-> [aet |-> "", port |-> 0], storagePath |-> <<>>, storeOnly |-> FALSE,
     netTransferPrefer |-> "", netTransferPropose |-> "", writeTransfer |-> "",
     peers |-> <<>>]

NoOptions == [net_ |-> NullHandle, allowShutdown_ |-> FALSE,
              disableGetSupport_ |-> FALSE, maxAssociations_ |-> 0, set |-> FALSE,
              networkTransferSyntax_ |-> "EXS_Unknown",
              networkTransferSyntaxOut_ |-> "EXS_Unknown",
              writeTransferSyntax_ |-> "EXS_Unknown", cfgPeers |-> <<>>]

\* the working directory always exists
FileSystems == { f \in [Dirs -> {"missing", "readonly", "writable"}] : f[CurrentDir] # "missing" }

---------------------------------------------------------------------------
(* Helpers *)

Append2(s, a, b) == Append(Append(s, a), b)

\* number of occurrences of event e in sequence s
Count(s, e) == Cardinality({i \in 1..Len(s) : s[i] = e})

\* index of the first occurrence of e in s (0: none)
FirstIndex(s, e) ==
    IF \E i \in 1..Len(s) : s[i] = e
    THEN CHOOSE i \in 1..Len(s) : s[i] = e /\ \A j \in 1..(i - 1) : s[j] # e
    ELSE 0

\* ns::sIdent::valid(): the source endpoint carries a title and a port
SourceValid(src) == src.aet # "" /\ src.port # 0

\* OFStandard::normalizeDirName(result, dirName): trailing path separators are
\* removed (one character is always kept), and the empty name becomes "."
RECURSIVE StripTrailing(_)
StripTrailing(p) ==
    IF Len(p) > 1 /\ p[Len(p)] = "/"
    THEN StripTrailing(SubSeq(p, 1, Len(p) - 1))
    ELSE p

normalizeDirName(p) ==
    LET q == StripTrailing(p) IN IF Len(q) = 0 THEN CurrentDir ELSE q

dirExists(f, d) == d \in DOMAIN f /\ f[d] # "missing"

isWriteable(f, d) == d \in DOMAIN f /\ f[d] = "writable"

\* Execute: `if (!Step(...)) return;` -- the next position after a step
AfterStepAlwaysShutdown(ok, next) == IF ok THEN next ELSE "shutdown"

AfterStepContinue(ok, next) == next

AfterStep(ok, next) == IF ok THEN next ELSE "done"

---------------------------------------------------------------------------
(* Construction *)

Init ==
    /\ variant \in Variants
    /\ dictLoaded \in BOOLEAN
    /\ fs \in FileSystems
    /\ hdStatic = [init |-> FALSE, val |-> <<>>]
    /\ soStatic = [init |-> FALSE, val |-> <<>>]
    /\ privDrops = 0
    /\ handles = <<>>
    /\ pc = [r \in Runs |-> "idle"]
    /\ input = [r \in Runs |-> NoInput]
    /\ in = [r \in Runs |-> NoInput]
    /\ net = [r \in Runs |-> Uninit]
    /\ reqNet = [r \in Runs |-> NullHandle]
    /\ options = [r \in Runs |-> NoOptions]
    /\ mode = [r \in Runs |-> "none"]
    /\ waits = [r \in Runs |-> 0]
    /\ errors = [r \in Runs |-> <<>>]
    /\ infos = [r \in Runs |-> <<>>]
    /\ trace = [r \in Runs |-> <<>>]
    /\ checkedDir = [r \in Runs |-> <<>>]
    /\ scpDir = [r \in Runs |-> <<>>]
    /\ conds = [r \in Runs |-> <<>>]

---------------------------------------------------------------------------
(* StartScp: a new ServerAsyncWorker is created from the caller's input   *)
(* and queued; its Execute then runs on a worker thread.                  *)

StartScp(r) ==
    /\ pc[r] = "idle"
    /\ \E i \in Inputs : input' = [input EXCEPT ![r] = i]
    /\ pc' = [pc EXCEPT ![r] = "validate"]
    /\ UNCHANGED <<conds, variant, dictLoaded, fs, hdStatic, soStatic, privDrops, handles,
                   in, net, reqNet, options, mode, waits, errors, infos, trace,
                   checkedDir, scpDir>>

\* a query/retrieve run with transfer syntaxes and peers configured
StartScpQueryRetrieve(r) ==
    /\ pc[r] = "idle"
    /\ \E i \in QueryRetrieveInputs : input' = [input EXCEPT ![r] = i]
    /\ pc' = [pc EXCEPT ![r] = "validate"]
    /\ UNCHANGED <<conds, variant, dictLoaded, fs, hdStatic, soStatic, privDrops, handles,
                   in, net, reqNet, options, mode, waits, errors, infos, trace,
                   checkedDir, scpDir>>


\* a run whose storage path is drawn from DirectoryPaths
StartScpDirectory(r) ==
    /\ pc[r] = "idle"
    /\ \E i \in DirectoryInputs : input' = [input EXCEPT ![r] = i]
    /\ pc' = [pc EXCEPT ![r] = "validate"]
    /\ UNCHANGED <<conds, variant, dictLoaded, fs, hdStatic, soStatic, privDrops, handles,
                   in, net, reqNet, options, mode, waits, errors, infos, trace,
                   checkedDir, scpDir>>

---------------------------------------------------------------------------
(* InitializeAndValidateInput (with the head of Execute)                  *)

\* the storage path after validation: the default replaces an empty path
DefaultedPathKeepEmpty(p) == p

DefaultedPath(p) == IF Len(p) = 0 THEN DefaultStoragePath ELSE p

\* result of the source check
ValidateSourceAcceptAll(i) == TRUE

ValidateSource(i) == SourceValid(i.source)

\* the notifications of the step: Execute of part_000 announces the start,
\* and a defaulted storage path is announced once
DefaultingInfos(i) ==
    IF ValidateSource(i) /\ Len(i.storagePath) = 0
    THEN <<"storage path not set, defaulting to ./data">> ELSE <<>>

ValidateInfos(v, i) ==
    (IF v = "part0" THEN <<"Starting Server Async Worker">> ELSE <<>>)
    \o DefaultingInfos(i)

InitializeAndValidateInput(r) ==
    /\ pc[r] = "validate"
    /\ LET i  == input[r]
           ok == ValidateSource(i)
       IN /\ in' = [in EXCEPT ![r] =
                       IF ok THEN [i EXCEPT !.storagePath = DefaultedPath(i.storagePath)]
                       ELSE i]
          /\ errors' = [errors EXCEPT ![r] =
                           IF ok THEN @ ELSE Append(@, [text |-> "Source not set", arg |-> <<>>])]
          /\ infos' = [infos EXCEPT ![r] = @ \o ValidateInfos(variant, i)]
          /\ trace' = [trace EXCEPT ![r] =
                          @ \o <<"parseInputJson", "InitializeAndValidateInput">>
                            \o (IF ok THEN <<>> ELSE <<"SetErrorJson">>)
                            \o (IF ok /\ Len(i.storagePath) = 0 THEN <<"SendInfo:default">> ELSE <<>>)]
          /\ pc' = [pc EXCEPT ![r] = AfterStep(ok, "directory")]
    /\ UNCHANGED <<conds, variant, dictLoaded, fs, hdStatic, soStatic, privDrops, handles,
                   input, net, reqNet, options, mode, waits, checkedDir, scpDir>>

\* what a call of InitializeAndValidateInput validates: the .cc function
\* parses the worker's _input again, the one of part_000 takes the
\* caller's in
ValidationSubject(v, raw, cur) == IF v = "cc" THEN raw ELSE cur

\* InitializeAndValidateInput applied once more to a run it has accepted
Revalidate(r) ==
    /\ pc[r] = "directory"
    /\ LET i  == ValidationSubject(variant, input[r], in[r])
           ok == ValidateSource(i)
       IN /\ in' = [in EXCEPT ![r] =
                       IF ok THEN [i EXCEPT !.storagePath = DefaultedPath(i.storagePath)]
                       ELSE i]
          /\ errors' = [errors EXCEPT ![r] =
                           IF ok THEN @ ELSE Append(@, [text |-> "Source not set", arg |-> <<>>])]
          /\ infos' = [infos EXCEPT ![r] = @ \o DefaultingInfos(i)]
          /\ trace' = [trace EXCEPT ![r] =
                          @ \o <<"InitializeAndValidateInput">>
                            \o (IF variant = "cc" THEN <<"parseInputJson">> ELSE <<>>)
                            \o (IF ok THEN <<>> ELSE <<"SetErrorJson">>)
                            \o (IF ok /\ Len(i.storagePath) = 0 THEN <<"SendInfo:default">> ELSE <<>>)]
          /\ pc' = [pc EXCEPT ![r] = AfterStep(ok, "revalidated")]
    /\ UNCHANGED <<conds, variant, dictLoaded, fs, hdStatic, soStatic, privDrops, handles,
                   input, net, reqNet, options, mode, waits, checkedDir, scpDir>>

---------------------------------------------------------------------------
(* HandleDirectory                                                        *)

ErrorMsg(text, arg) == [text |-> text, arg |-> arg]

\* `static OFString opt_outputDirectory = OFString(in.storagePath.c_str());`
\* a function-local static is initialized by the first call that reaches it
\* and keeps its value for the life of the process
StaticInitPerCall(st, p) == [init |-> TRUE, val |-> p]

StaticInit(st, p) == IF st.init THEN st ELSE [init |-> TRUE, val |-> p]

\* The whole of HandleDirectory: dictionary, normalization, existence,
\* writability. st is the static, p the run's storage path, f the file system.
\* Result: ok (return value), st (the static afterwards), err (SetErrorJson
\* messages), calls (library calls made), checked (directory that was checked).
HandleDirectoryResult(v, dict, st, p, f) ==
    IF ~dict
    THEN [ok |-> FALSE, st |-> st,
          err |-> <<ErrorMsg("No data dictionary loaded", <<>>)>>,
          calls |-> <<"isDictionaryLoaded", "SetErrorJson">>, checked |-> <<>>]
    ELSE
      LET st0   == StaticInit(st, p)
          d0    == st0.val
          \* part_000 normalizes inside `if (opt_outputDirectory != ".")`
          d     == IF v = "part0" /\ d0 = CurrentDir THEN d0 ELSE normalizeDirName(d0)
          \* cc tests the normalized name against ".", part_000 the raw one
          exist == IF v = "part0" THEN d0 # CurrentDir ELSE d # CurrentDir
          st1   == [init |-> TRUE, val |-> d]
          pre   == <<"isDictionaryLoaded">>
                   \o (IF v = "part0" /\ d0 = CurrentDir THEN <<>> ELSE <<"normalizeDirName">>)
                   \o (IF exist THEN <<"dirExists">> ELSE <<>>)
      IN IF exist /\ ~dirExists(f, d)
         THEN [ok |-> FALSE, st |-> st1,
               err |-> <<ErrorMsg("Specified output directory does not exist: ", d)>>,
               calls |-> pre \o <<"SetErrorJson">>, checked |-> d]
         ELSE IF ~isWriteable(f, d)
         THEN [ok |-> FALSE, st |-> st1,
               err |-> <<ErrorMsg("Specified output directory is not writeable: ", d)>>,
               calls |-> pre \o <<"isWriteable", "SetErrorJson">>, checked |-> d]
         ELSE [ok |-> TRUE, st |-> st1, err |-> <<>>,
               calls |-> pre \o <<"isWriteable">>, checked |-> d]

HandleDirectory(r) ==
    /\ pc[r] = "directory"
    /\ LET res == HandleDirectoryResult(variant, dictLoaded, hdStatic, in[r].storagePath, fs)
       IN /\ hdStatic' = res.st
          /\ errors' = [errors EXCEPT ![r] = @ \o res.err]
          /\ trace' = [trace EXCEPT ![r] = @ \o <<"HandleDirectory">> \o res.calls]
          /\ checkedDir' = [checkedDir EXCEPT ![r] = res.checked]
          /\ pc' = [pc EXCEPT ![r] = AfterStep(res.ok, "network")]
    /\ UNCHANGED <<conds, variant, dictLoaded, fs, soStatic, privDrops, handles, input, in,
                   net, reqNet, options, mode, waits, infos, scpDir>>

---------------------------------------------------------------------------
(* InitializeNetwork                                                      *)

\* ASC_initializeNetwork(NET_ACCEPTOR, opt_port, 30, &net) binds the run's
\* source port; ASC_initializeNetwork(NET_REQUESTOR, 0, 10000, ...) binds none
\* waitedBy and droppedBy record the runs whose waitForAssociation and whose
\* successful ASC_dropNetwork were given the handle
NewHandle(role, r) ==
    [role |-> role, owner |-> r, drops |-> 0, usedAfterDrop |-> FALSE,
     port |-> IF role = "acceptor" THEN in[r].source.port ELSE 0,
     waitedBy |-> <<>>, droppedBy |-> <<>>]

\* the calls InitializeNetwork makes, in order: network subsystem, acceptor,
\* privilege drop (only once the acceptor is bound), requestor (doReq)
InitializeNetworkCallsDropFirst(accOk, dropOk, doReq) ==
    <<"InitializeNetwork", "OFStandard::initializeNetwork", "dropPrivileges",
      "ASC_initializeNetwork:acceptor">>
    \o (IF accOk /\ dropOk THEN <<>> ELSE <<"SetErrorJson">>)
    \o (IF doReq THEN <<"ASC_initializeNetwork:requestor">> ELSE <<>>)

InitializeNetworkCalls(accOk, dropOk, doReq) ==
    <<"InitializeNetwork", "OFStandard::initializeNetwork",
      "ASC_initializeNetwork:acceptor">>
    \o (IF accOk THEN <<"dropPrivileges">> ELSE <<"SetErrorJson">>)
    \o (IF accOk /\ ~dropOk THEN <<"SetErrorJson">> ELSE <<>>)
    \o (IF doReq THEN <<"ASC_initializeNetwork:requestor">> ELSE <<>>)

\* part_000 creates the requestor network in InitializeNetwork, for every
\* run; ServerAsyncWorker.cc creates it in HandleQueryRetrieve
RequestorInInitialize(v) == v = "part0"

RequestorInQueryRetrieve(v) == v = "cc"

\* Execute: `if (in.storeOnly) HandleStoreOnly else HandleQueryRetrieve`
RouteAlwaysQueryRetrieve(storeOnly) == "queryRetrieve"

Route(storeOnly) == IF storeOnly THEN "storeOnly" ELSE "queryRetrieve"

InitializeNetwork(r) ==
    /\ pc[r] = "network"
    /\ \E accOk \in BOOLEAN, dropOk \in BOOLEAN, reqOk \in BOOLEAN :
         LET acc    == Len(handles) + 1
             doReq  == accOk /\ dropOk /\ RequestorInInitialize(variant)
             ok     == accOk /\ dropOk /\ (doReq => reqOk)
         IN /\ handles' = IF ~accOk THEN handles
                          ELSE IF doReq /\ reqOk
                               THEN Append2(handles, NewHandle("acceptor", r),
                                                     NewHandle("requestor", r))
                               ELSE Append(handles, NewHandle("acceptor", r))
            /\ net' = [net EXCEPT ![r] = IF accOk THEN acc ELSE @]
            /\ reqNet' = [reqNet EXCEPT ![r] = IF doReq /\ reqOk THEN acc + 1 ELSE @]
            /\ privDrops' = IF accOk THEN privDrops + 1 ELSE privDrops
            /\ errors' = [errors EXCEPT ![r] =
                   IF ~accOk THEN Append(@, ErrorMsg("Cannot create network: ", <<>>))
                   ELSE IF ~dropOk
                   THEN Append(@, ErrorMsg("setuid() failed, maximum number of threads for uid already running", <<>>))
                   ELSE @]
            /\ trace' = [trace EXCEPT ![r] =
                   @ \o InitializeNetworkCalls(accOk, dropOk, doReq)]
            /\ pc' = [pc EXCEPT ![r] = AfterStep(ok, Route(in[r].storeOnly))]
    /\ UNCHANGED <<conds, variant, dictLoaded, fs, hdStatic, soStatic, input, in, options,
                   mode, waits, infos, checkedDir, scpDir>>

---------------------------------------------------------------------------
(* HandleStoreOnly: construction of the provider, up to the accept loop   *)

\* the directory handed to RetrieveScp: ServerAsyncWorker.cc reads a
\* function-local static, part_000 a local built from this run's input
StoreOnlyStatic(v, st, p) == IF v = "cc" THEN StaticInit(st, p) ELSE st

StoreOnlyDirectory(v, st, p) == IF v = "cc" THEN StoreOnlyStatic(v, st, p).val ELSE p

HandleStoreOnly(r) ==
    /\ pc[r] = "storeOnly"
    /\ soStatic' = StoreOnlyStatic(variant, soStatic, in[r].storagePath)
    /\ scpDir' = [scpDir EXCEPT ![r] = StoreOnlyDirectory(variant, soStatic, in[r].storagePath)]
    /\ mode' = [mode EXCEPT ![r] = "storeOnly"]
    /\ trace' = [trace EXCEPT ![r] = Append(@, "HandleStoreOnly")]
    /\ pc' = [pc EXCEPT ![r] = "loop"]
    /\ UNCHANGED <<conds, variant, dictLoaded, fs, hdStatic, privDrops, handles, input, in,
                   net, reqNet, options, waits, errors, infos, checkedDir>>

---------------------------------------------------------------------------
(* HandleQueryRetrieve: configuration, requestor network, options, up to  *)
(* the accept loop                                                        *)

\* DcmXfer(const char *): the transfer syntax whose UID the string is,
\* EXS_Unknown for a string that names none
XferNames ==
    [s \in {"1.2.840.10008.1.2", "1.2.840.10008.1.2.1"} |->
        IF s = "1.2.840.10008.1.2" THEN "EXS_LittleEndianImplicit"
        ELSE "EXS_LittleEndianExplicit"]

DcmXfer(s) == IF s \in DOMAIN XferNames THEN XferNames[s] ELSE "EXS_Unknown"

\* `in.x.empty() ? DcmXfer(EXS_Unknown) : DcmXfer(in.x.c_str())`, getXfer()
ResolveXfer(s) == IF s = "" THEN "EXS_Unknown" ELSE DcmXfer(s)

\* DcmQueryRetrieveOptions as set by HandleQueryRetrieve from input i, and
\* the peers added to the configuration; n is the value of `network` at
\* `options.net_ = network`
QueryRetrieveOptionsOneSyntax(n, i) ==
    [net_ |-> n, allowShutdown_ |-> TRUE, disableGetSupport_ |-> TRUE,
     maxAssociations_ |-> MaxAssociations, set |-> TRUE,
     networkTransferSyntax_ |-> ResolveXfer(i.netTransferPrefer),
     networkTransferSyntaxOut_ |-> ResolveXfer(i.netTransferPrefer),
     writeTransferSyntax_ |-> ResolveXfer(i.netTransferPrefer),
     cfgPeers |-> i.peers]

QueryRetrieveOptions(n, i) ==
    [net_ |-> n, allowShutdown_ |-> TRUE, disableGetSupport_ |-> TRUE,
     maxAssociations_ |-> MaxAssociations, set |-> TRUE,
     networkTransferSyntax_ |-> ResolveXfer(i.netTransferPrefer),
     networkTransferSyntaxOut_ |-> ResolveXfer(i.netTransferPropose),
     writeTransferSyntax_ |-> ResolveXfer(i.writeTransfer),
     cfgPeers |-> i.peers]

HandleQueryRetrieve(r) ==
    /\ pc[r] = "queryRetrieve"
    /\ \E reqOk \in BOOLEAN :
         LET doReq == RequestorInQueryRetrieve(variant)
             id    == Len(handles) + 1
             ok    == doReq => reqOk
             \* part_000 names `network` here, which no declaration in scope
             \* binds to the requestor that InitializeNetwork created
             n     == IF doReq THEN id ELSE NullHandle
         IN /\ handles' = IF doReq /\ reqOk
                          THEN Append(handles, NewHandle("requestor", r)) ELSE handles
            /\ reqNet' = [reqNet EXCEPT ![r] = IF doReq /\ reqOk THEN id ELSE @]
            /\ options' = [options EXCEPT ![r] = IF ok THEN QueryRetrieveOptions(n, in[r]) ELSE @]
            /\ trace' = [trace EXCEPT ![r] =
                   Append(@, "HandleQueryRetrieve")
                   \o (IF doReq THEN <<"ASC_initializeNetwork:requestor">> ELSE <<>>)]
            \* a failed requestor is logged (DCMNET_ERROR) and the handler
            \* returns false: no SetErrorJson
            /\ pc' = [pc EXCEPT ![r] = IF ok THEN "loop" ELSE AfterStep(FALSE, "shutdown")]
    /\ mode' = [mode EXCEPT ![r] = "queryRetrieve"]
    /\ UNCHANGED <<conds, variant, dictLoaded, fs, hdStatic, soStatic, privDrops, input, in,
                   net, waits, errors, infos, checkedDir, scpDir>>

---------------------------------------------------------------------------
(* The accept loop of either handler: one waitForAssociation per step;    *)
(* the step that gets a bad condition leaves the loop, returns from the   *)
(* handler and takes Execute's branch on the handler's result.            *)

\* return value of the handler once its loop has exited with condition
\* good = cond.good(): ServerAsyncWorker.cc returns cond.good(), part_000 true
ServiceReturnTrue(v, good) == TRUE

ServiceReturn(v, good) == IF v = "cc" THEN good ELSE TRUE

\* `while (cond.good())`
LoopContinuesAlways(good) == TRUE

LoopContinuesNever(good) == FALSE

LoopContinues(good) == good

\* where a run of variant v is after a waitForAssociation that returned
\* condition good: in the loop, or out of the handler with its return value
LoopOutcome(v, good) ==
    IF LoopContinues(good) THEN "loop"
    ELSE AfterStep(ServiceReturn(v, good), "shutdown")

\* the network of `scp.waitForAssociation(net, ...)`: the `net` parameter of
\* the handler, which Execute binds to its own local `net`
LoopNetworkShared(r) == net[FirstRun]

LoopNetworkRequestor(r) == reqNet[r]

LoopNetwork(r) == net[r]

WaitForAssociation(r) ==
    /\ pc[r] = "loop"
    /\ \E good \in BOOLEAN :
         /\ good => waits[r] < MaxAssoc
         /\ conds' = [conds EXCEPT ![r] = Append(@, good)]
         /\ pc' = [pc EXCEPT ![r] = LoopOutcome(variant, good)]
    /\ waits' = [waits EXCEPT ![r] = @ + 1]
    /\ handles' = LET h == LoopNetwork(r)
                  IN IF h \in 1..Len(handles)
                     THEN [handles EXCEPT ![h].usedAfterDrop = @ \/ handles[h].drops > 0,
                                          ![h].waitedBy = Append(@, r)]
                     ELSE handles
    /\ trace' = [trace EXCEPT ![r] = Append(@, "waitForAssociation")]
    /\ UNCHANGED <<variant, dictLoaded, fs, hdStatic, soStatic, privDrops, input, in,
                   net, reqNet, options, mode, errors, infos, checkedDir, scpDir>>

---------------------------------------------------------------------------
(* ShutdownNetwork                                                        *)

\* ASC_dropNetwork(&net): the network is freed and the caller's pointer set
\* to NULL when the drop succeeds; on a bad condition the pointer is left
DropResultKeepPointer(h, ok) == h

DropResult(h, ok) == IF ok THEN NullHandle ELSE h

\* the calls ShutdownNetwork makes, in order: the release, the report of a
\* bad condition, and the teardown of the network subsystem, which no branch
\* leaves out
ShutdownNetworkCallsSkipOnFailure(dropOk) ==
    <<"ShutdownNetwork", "ASC_dropNetwork">>
    \o (IF dropOk THEN <<"OFStandard::shutdownNetwork">> ELSE <<"SetErrorJson">>)

ShutdownNetworkCalls(dropOk) ==
    <<"ShutdownNetwork", "ASC_dropNetwork">>
    \o (IF dropOk THEN <<>> ELSE <<"SetErrorJson">>)
    \o <<"OFStandard::shutdownNetwork">>

ShutdownNetwork(r) ==
    /\ pc[r] = "shutdown"
    /\ \E dropOk \in BOOLEAN :
         LET h == net[r]
         IN /\ handles' = IF dropOk /\ h \in 1..Len(handles)
                          THEN [handles EXCEPT ![h].drops = @ + 1,
                                               ![h].droppedBy = Append(@, r)]
                          ELSE handles
            /\ net' = [net EXCEPT ![r] = DropResult(h, dropOk)]
            /\ errors' = [errors EXCEPT ![r] =
                   IF dropOk THEN @ ELSE Append(@, ErrorMsg("ASC_dropNetwork: ", <<>>))]
            /\ trace' = [trace EXCEPT ![r] = @ \o ShutdownNetworkCalls(dropOk)]
    /\ pc' = [pc EXCEPT ![r] = "done"]
    /\ UNCHANGED <<conds, variant, dictLoaded, fs, hdStatic, soStatic, privDrops, input, in,
                   reqNet, options, mode, waits, infos, checkedDir, scpDir>>

---------------------------------------------------------------------------
(* Specification *)

Next ==
    \E r \in Runs :
        \/ StartScp(r)
        \/ InitializeAndValidateInput(r)
        \/ HandleDirectory(r)
        \/ InitializeNetwork(r)
        \/ HandleStoreOnly(r)
        \/ HandleQueryRetrieve(r)
        \/ WaitForAssociation(r)
        \/ ShutdownNetwork(r)

Spec == Init /\ [][Next]_vars

\* the validation step alone, applied once and then once more
NextValidate ==
    \E r \in Runs :
        \/ StartScp(r)
        \/ InitializeAndValidateInput(r)
        \/ Revalidate(r)

SpecValidate == Init /\ [][NextValidate]_vars

\* one query/retrieve run with transfer syntaxes and peers configured, up to
\* the construction of the provider

NextQueryRetrieve ==
    \/ StartScpQueryRetrieve(FirstRun)
    \/ InitializeAndValidateInput(FirstRun)
    \/ HandleDirectory(FirstRun)
    \/ InitializeNetwork(FirstRun)
    \/ HandleQueryRetrieve(FirstRun)

SpecQueryRetrieve == Init /\ [][NextQueryRetrieve]_vars

\* the runs up to the end of HandleDirectory, with storage paths that name
\* the working directory in more than one way
NextDirectory ==
    \E r \in Runs :
        \/ StartScpDirectory(r)
        \/ InitializeAndValidateInput(r)
        \/ HandleDirectory(r)

SpecDirectory == Init /\ [][NextDirectory]_vars

\* one run of Execute on its worker thread: the steps follow one another
\* without waiting for anything but waitForAssociation, so ShutdownNetwork,
\* once reached, is taken
NextOneRun ==
    \/ StartScp(FirstRun)
    \/ InitializeAndValidateInput(FirstRun)
    \/ HandleDirectory(FirstRun)
    \/ InitializeNetwork(FirstRun)
    \/ HandleStoreOnly(FirstRun)
    \/ HandleQueryRetrieve(FirstRun)
    \/ WaitForAssociation(FirstRun)
    \/ ShutdownNetwork(FirstRun)

SpecOneRunFair ==
    Init /\ [][NextOneRun]_vars /\ WF_vars(ShutdownNetwork(FirstRun))

---------------------------------------------------------------------------
(* Vocabulary of the properties *)

Called(r, e) == \E i \in 1..Len(trace[r]) : trace[r][i] = e

Done(r) == pc[r] = "done"

Validated(r) == pc[r] \notin {"idle", "validate"}

HandlesOf(r, role) ==
    {h \in 1..Len(handles) : handles[h].owner = r /\ handles[h].role = role}

LiveHandlesOf(r, role) == {h \in HandlesOf(r, role) : handles[h].drops = 0}

AcceptorCreated(r) == HandlesOf(r, "acceptor") # {}

ShutdownCalled(r) ==
    \/ Called(r, "ShutdownNetwork")
    \/ Called(r, "ASC_dropNetwork")
    \/ Called(r, "OFStandard::shutdownNetwork")

ConfigErrorTexts ==
    {"Source not set", "No data dictionary loaded",
     "Specified output directory does not exist: ",
     "Specified output directory is not writeable: "}

ConfigError(r) == Len(errors[r]) > 0 /\ errors[r][1].text \in ConfigErrorTexts

DropFailed(r) == \E i \in 1..Len(errors[r]) : errors[r][i].text = "ASC_dropNetwork: "

DefaultInfo == "storage path not set, defaulting to ./data"

---------------------------------------------------------------------------
(* C1: every finished run that entered an accept loop executed            *)
(* ShutdownNetwork exactly once after the loop and no longer holds an     *)
(* unreleased acceptor handle.                                            *)
C1_ShutdownAfterLoop ==
    \A r \in Runs :
        Done(r) /\ Called(r, "waitForAssociation") =>
            /\ Count(trace[r], "ShutdownNetwork") = 1
            /\ LiveHandlesOf(r, "acceptor") = {}

(* C2: a finished run whose acceptor was created and which failed before  *)
(* the accept loop (privilege drop or requestor creation) has released    *)
(* the acceptor handle.                                                   *)
C2_ReleaseOnEarlyAbort ==
    \A r \in Runs :
        Done(r) /\ AcceptorCreated(r) /\ ~Called(r, "waitForAssociation") =>
            /\ Called(r, "ASC_dropNetwork")
            /\ LiveHandlesOf(r, "acceptor") = {}

(* C3: release and teardown are called only in runs whose acceptor handle *)
(* was created; a run that ended with a configuration error made no       *)
(* release or teardown call.                                              *)
C3_ShutdownOnlyWithAcceptor ==
    \A r \in Runs :
        /\ ShutdownCalled(r) => AcceptorCreated(r)
        /\ Done(r) /\ ConfigError(r) => ~ShutdownCalled(r) /\ ~AcceptorCreated(r)

C3_Witness ==
    /\ \E r \in Runs : Done(r) /\ ConfigError(r)
    /\ \E r \in Runs : Done(r) /\ Called(r, "ShutdownNetwork") /\ AcceptorCreated(r)

(* C4 as claimed: a handle is released at most once, never used after its *)
(* release, and after ShutdownNetwork the acceptor reference is null.     *)
C4_Original ==
    /\ \A h \in 1..Len(handles) : handles[h].drops <= 1 /\ ~handles[h].usedAfterDrop
    /\ \A r \in Runs : Called(r, "ShutdownNetwork") => net[r] = NullHandle

(* C4 amended: a handle is released at most once and never used after its *)
(* release; after a ShutdownNetwork whose ASC_dropNetwork succeeded the    *)
(* acceptor reference is null, and after one whose ASC_dropNetwork        *)
(* returned a bad condition the reference still holds the unreleased      *)
(* handle.                                                                *)
C4_ReleaseOnceNullAfterDrop ==
    /\ \A h \in 1..Len(handles) : handles[h].drops <= 1 /\ ~handles[h].usedAfterDrop
    /\ \A r \in Runs :
          Called(r, "ShutdownNetwork") =>
              IF DropFailed(r)
              THEN net[r] \in LiveHandlesOf(r, "acceptor")
              ELSE net[r] = NullHandle /\ LiveHandlesOf(r, "acceptor") = {}

C4_Witness ==
    \E r \in Runs :
        /\ Called(r, "ShutdownNetwork") /\ ~DropFailed(r)
        /\ net[r] = NullHandle
        /\ \E h \in HandlesOf(r, "acceptor") : handles[h].drops = 1

(* C5: when a run has finished, no requestor handle it created remains    *)
(* allocated.                                                             *)
C5_RequestorReleased ==
    \A r \in Runs : Done(r) => LiveHandlesOf(r, "requestor") = {}

(* C6: a run has at most one acceptor handle, and a requestor handle only *)
(* if its configuration has storeOnly = FALSE.                            *)
C6_RequestorOnlyInQueryRetrieve ==
    \A r \in Runs :
        /\ Cardinality(HandlesOf(r, "acceptor")) <= 1
        /\ HandlesOf(r, "requestor") # {} => ~input[r].storeOnly

(* C7: a run whose source endpoint is invalid ends at validation with the *)
(* error "Source not set"; no directory check, no network initialization  *)
(* and no accept loop is executed in it.                                  *)
C7_InvalidSourceStops ==
    \A r \in Runs :
        Validated(r) /\ ~SourceValid(input[r].source) =>
            /\ Done(r)
            /\ errors[r] = <<ErrorMsg("Source not set", <<>>)>>
            /\ ~Called(r, "HandleDirectory")
            /\ ~Called(r, "InitializeNetwork")
            /\ ~Called(r, "waitForAssociation")
            /\ checkedDir[r] = <<>> /\ net[r] = Uninit /\ HandlesOf(r, "acceptor") = {}

C7_Witness ==
    \E r \in Runs :
        /\ Done(r) /\ ~SourceValid(input[r].source)
        /\ errors[r] = <<ErrorMsg("Source not set", <<>>)>>

(* C8: once validation has accepted a configuration, its storage path is  *)
(* never empty; if the configured path was empty, the effective path is   *)
(* "./data" and exactly one notification about the defaulting was sent,   *)
(* before HandleDirectory.                                                *)
C8_DefaultStoragePath ==
    \A r \in Runs :
        Validated(r) /\ SourceValid(input[r].source) =>
            /\ Len(in[r].storagePath) > 0
            /\ Len(input[r].storagePath) > 0 =>
                  in[r].storagePath = input[r].storagePath /\ ~Called(r, "SendInfo:default")
            /\ Len(input[r].storagePath) = 0 =>
                  /\ in[r].storagePath = DefaultStoragePath
                  /\ Count(infos[r], DefaultInfo) = 1
                  /\ Count(trace[r], "SendInfo:default") = 1
                  /\ Called(r, "HandleDirectory") =>
                        FirstIndex(trace[r], "SendInfo:default")
                            < FirstIndex(trace[r], "HandleDirectory")

C8_Witness ==
    \E r \in Runs :
        /\ SourceValid(input[r].source) /\ Len(input[r].storagePath) = 0
        /\ Called(r, "HandleDirectory")
        /\ in[r].storagePath = DefaultStoragePath
        /\ Count(infos[r], DefaultInfo) = 1

(* C9: a run whose storage path denotes an existing, non-writable         *)
(* directory ends at the directory check with the "not writeable" error   *)
(* naming that run's path, and InitializeNetwork is not executed.         *)
C9_NonWriteableStops ==
    \A r \in Runs :
        /\ pc[r] \notin {"idle", "validate", "directory"}
        /\ SourceValid(input[r].source)
        /\ dictLoaded
        /\ fs[normalizeDirName(in[r].storagePath)] = "readonly"
        => /\ Done(r)
           /\ errors[r] = <<ErrorMsg("Specified output directory is not writeable: ",
                                     normalizeDirName(in[r].storagePath))>>
           /\ ~Called(r, "InitializeNetwork")

(* C10: the directory HandleDirectory checks in a run, and the directory  *)
(* handed to the store-only provider in a run, are that run's own         *)
(* storage path.                                                          *)
C10_OwnDirectory ==
    \A r \in Runs :
        /\ Len(checkedDir[r]) > 0 =>
              checkedDir[r] = normalizeDirName(in[r].storagePath)
        /\ Len(scpDir[r]) > 0 =>
              normalizeDirName(scpDir[r]) = normalizeDirName(in[r].storagePath)

---------------------------------------------------------------------------
(* Vocabulary of the order properties *)

FileSystemCalls == {"isDictionaryLoaded", "normalizeDirName", "dirExists", "isWriteable"}

StepCalls ==
    {"InitializeAndValidateInput", "HandleDirectory", "InitializeNetwork",
     "HandleStoreOnly", "HandleQueryRetrieve", "ShutdownNetwork"}

\* the step of Execute a call belongs to: 1 validation, 2 directory check,
\* 3 network bring-up, 4 service handler and its loop, 5 shutdown
\* (0: before the first step)
StepTable ==
    [e \in {"InitializeAndValidateInput", "SendInfo:default"} |-> 1]
    @@ [e \in {"HandleDirectory"} \cup FileSystemCalls |-> 2]
    @@ [e \in {"InitializeNetwork", "OFStandard::initializeNetwork",
               "ASC_initializeNetwork:acceptor", "dropPrivileges"} |-> 3]
    @@ [e \in {"HandleStoreOnly", "HandleQueryRetrieve", "waitForAssociation"} |-> 4]
    @@ [e \in {"ShutdownNetwork", "ASC_dropNetwork", "OFStandard::shutdownNetwork"} |-> 5]
    @@ [e \in {"parseInputJson", "SetErrorJson"} |-> 0]

\* the requestor network is created in InitializeNetwork by part_000 and in
\* HandleQueryRetrieve by the .cc file
StepOf(v, e) ==
    IF e = "ASC_initializeNetwork:requestor"
    THEN (IF v = "part0" THEN 3 ELSE 4)
    ELSE StepTable[e]

\* the step of the i-th call of trace t; SetErrorJson belongs to the step
\* of the call before it
StepAt(t, i) ==
    IF i = 0 THEN 0
    ELSE IF t[i] = "SetErrorJson"
         THEN (IF i = 1 THEN 0 ELSE StepOf(variant, t[i - 1]))
         ELSE StepOf(variant, t[i])

\* the positions of the calls a step of the specification adds to run r
NewCalls(r) == (Len(trace[r]) + 1)..Len(trace'[r])

\* run r made call e before the call at position i of its trace after the step
CalledBefore(r, i, e) == \E j \in 1..(i - 1) : trace'[r][j] = e

\* a step only adds calls to the trace of a run
TraceGrows(r) == SubSeq(trace'[r], 1, Len(trace[r])) = trace[r]

\* the i-th error of run r is a terminal configuration or network error
\* (not the error of a failed release in ShutdownNetwork)
TerminalError(r, i) == errors[r][i].text # "ASC_dropNetwork: "

NoTerminalError(r) == \A i \in 1..Len(errors[r]) : ~TerminalError(r, i)

HasHandle(r, role) ==
    \E h \in 1..Len(handles) : handles[h].owner = r /\ handles[h].role = role

AcceptorFailed(r) == Called(r, "ASC_initializeNetwork:acceptor") /\ ~HasHandle(r, "acceptor")

RequestorFailed(r) ==
    Called(r, "ASC_initializeNetwork:requestor") /\ ~HasHandle(r, "requestor")

---------------------------------------------------------------------------
(* C11: a run calls dropPrivileges only after its acceptor network was    *)
(* created on the port of its source, and only if it has neither dropped  *)
(* privileges nor waited for an association before; it waits for an       *)
(* association only after it dropped privileges. A run whose acceptor     *)
(* creation failed therefore never drops privileges.                      *)
C11_PrivilegeDropOrder ==
    [][\A r \in Runs :
          /\ TraceGrows(r)
          /\ \A i \in NewCalls(r) :
                /\ trace'[r][i] = "dropPrivileges" =>
                      /\ CalledBefore(r, i, "ASC_initializeNetwork:acceptor")
                      /\ \E h \in 1..Len(handles') :
                            /\ handles'[h].owner = r /\ handles'[h].role = "acceptor"
                            /\ handles'[h].port = input[r].source.port
                      /\ ~CalledBefore(r, i, "dropPrivileges")
                      /\ ~CalledBefore(r, i, "waitForAssociation")
                /\ trace'[r][i] = "waitForAssociation" =>
                      CalledBefore(r, i, "dropPrivileges")]_vars

C11_Witness ==
    /\ \E r \in Runs : Called(r, "dropPrivileges") /\ Called(r, "waitForAssociation")
    /\ \E r \in Runs : Done(r) /\ AcceptorFailed(r)

(* C12: in one process the privilege drop is attempted at most once.      *)
C12_PrivilegeDropOnce == privDrops <= 1

(* C13: a run calls HandleStoreOnly only if storeOnly is set and          *)
(* HandleQueryRetrieve only if it is not, and in both cases only if it    *)
(* has called neither handler before; it waits for associations and shuts *)
(* down only after it called the handler of its mode.                     *)
C13_ExactlyOneMode ==
    [][\A r \in Runs :
          /\ TraceGrows(r)
          /\ \A i \in NewCalls(r) :
                /\ trace'[r][i] = "HandleStoreOnly" =>
                      /\ in[r].storeOnly /\ mode'[r] = "storeOnly"
                      /\ ~CalledBefore(r, i, "HandleStoreOnly")
                      /\ ~CalledBefore(r, i, "HandleQueryRetrieve")
                /\ trace'[r][i] = "HandleQueryRetrieve" =>
                      /\ ~in[r].storeOnly /\ mode'[r] = "queryRetrieve"
                      /\ ~CalledBefore(r, i, "HandleStoreOnly")
                      /\ ~CalledBefore(r, i, "HandleQueryRetrieve")
                /\ trace'[r][i] \in {"waitForAssociation", "ShutdownNetwork"} =>
                      CalledBefore(r, i, IF in[r].storeOnly THEN "HandleStoreOnly"
                                         ELSE "HandleQueryRetrieve")]_vars

C13_Witness ==
    /\ \E r \in Runs : in[r].storeOnly /\ Called(r, "HandleStoreOnly") /\ Called(r, "waitForAssociation")
    /\ \E r \in Runs : ~in[r].storeOnly /\ Called(r, "HandleQueryRetrieve") /\ Called(r, "waitForAssociation")

C15_LoopStopsOnFirstBad ==
    \A r \in Runs :
        /\ Len(conds[r]) = waits[r]
        /\ \A i \in 1..(Len(conds[r]) - 1) : conds[r][i]
        /\ pc[r] = "loop" => \A i \in 1..Len(conds[r]) : conds[r][i]
        /\ Len(conds[r]) > 0 /\ pc[r] # "loop" => ~conds[r][Len(conds[r])]
        /\ Len(conds[r]) > 0 => mode[r] \in {"storeOnly", "queryRetrieve"}

C15_Witness ==
    /\ \E r \in Runs : mode[r] = "storeOnly" /\ conds[r] = <<TRUE, FALSE>>
    /\ \E r \in Runs : mode[r] = "queryRetrieve" /\ conds[r] = <<TRUE, FALSE>>

(* C16: ShutdownNetwork never changes the outcome of a run: a run that   *)
(* had no error set before the step has none set after it, whatever the   *)
(* release of the acceptor handle returned.                               *)
C16_ShutdownKeepsOutcome ==
    [][\A r \in Runs :
          pc[r] = "shutdown" /\ pc'[r] = "done" =>
              (Len(errors'[r]) > 0) = (Len(errors[r]) > 0)]_vars

(* C17: a step of a run adds at most one error; once a terminal           *)
(* (configuration or network) error has been set the run is over: no      *)
(* later step sets another error or makes another call; and no step       *)
(* function is called a second time by the same run.                      *)
C17_AtMostOneTerminalError ==
    [][\A r \in Runs :
          /\ Len(errors'[r]) <= Len(errors[r]) + 1
          /\ SubSeq(errors'[r], 1, Len(errors[r])) = errors[r]
          /\ ~NoTerminalError(r) =>
                /\ Done(r) /\ Len(errors[r]) = 1
                /\ errors'[r] = errors[r] /\ trace'[r] = trace[r] /\ pc'[r] = pc[r]
          /\ \A i \in (Len(trace[r]) + 1)..Len(trace'[r]) :
                trace'[r][i] \in StepCalls =>
                    /\ ~Called(r, trace'[r][i])
                    /\ \A j \in (Len(trace[r]) + 1)..(i - 1) : trace'[r][j] # trace'[r][i]]_vars

C17_Witness ==
    \E r \in Runs :
        /\ Done(r) /\ Len(errors[r]) = 1
        /\ errors[r][1].text = "setuid() failed, maximum number of threads for uid already running"

(* C18: a finished run that called OFStandard::initializeNetwork called   *)
(* OFStandard::shutdownNetwork exactly once.                              *)
C18_TeardownPaired ==
    \A r \in Runs :
        Done(r) /\ Called(r, "OFStandard::initializeNetwork") =>
            Count(trace[r], "OFStandard::shutdownNetwork") = 1

(* C19: the calls of a run never go back to an earlier step and never     *)
(* skip one: validation, directory check, network bring-up, service       *)
(* handler and loop, shutdown, each entered once through its own          *)
(* function and only when the earlier step had succeeded. File system     *)
(* calls are made only after a successful validation, network calls only  *)
(* after a successful directory check, and an error set before the        *)
(* shutdown step ends the run.                                            *)
C19_StepOrder ==
    [][\A r \in Runs :
          /\ TraceGrows(r)
          /\ \A i \in NewCalls(r) :
                LET k == StepAt(trace'[r], i)
                    p == StepAt(trace'[r], i - 1)
                IN /\ p <= k /\ k <= p + 1
                   /\ (p < k) = (trace'[r][i] \in StepCalls)
                   /\ i > 1 /\ trace'[r][i - 1] = "SetErrorJson" =>
                         p = 5 /\ trace'[r][i] = "OFStandard::shutdownNetwork"
                   /\ k >= 2 => SourceValid(input[r].source)
                   /\ k >= 3 => dictLoaded /\ isWriteable(fs, checkedDir[r])
                   /\ k >= 4 =>
                         /\ HasHandle(r, "acceptor") /\ Called(r, "dropPrivileges")
                         /\ NoTerminalError(r)
                   /\ k >= 5 => Called(r, "waitForAssociation")]_vars

C19_Witness ==
    \E r \in Runs :
        /\ Done(r) /\ Called(r, "ShutdownNetwork")
        /\ Called(r, "InitializeAndValidateInput") /\ Called(r, "HandleDirectory")
        /\ Called(r, "InitializeNetwork") /\ Called(r, "waitForAssociation")

(* C20: applying InitializeAndValidateInput once more to a run it has     *)
(* accepted changes neither the validated input nor the errors, sends no  *)
(* notification, and leaves a non-empty storagePath as the caller gave it. *)
C20_ValidationIdempotent ==
    [][\A r \in Runs :
          pc[r] = "directory" /\ pc'[r] = "revalidated" =>
              /\ in'[r] = in[r]
              /\ errors'[r] = errors[r]
              /\ infos'[r] = infos[r]
              /\ Len(input[r].storagePath) > 0 =>
                    in'[r].storagePath = input[r].storagePath]_vars

---------------------------------------------------------------------------
(* C21 as stated: each transfer syntax of the provider options is         *)
(* EXS_Unknown exactly when its own input string is empty.                *)
C21_Original ==
    \A r \in Runs :
        options[r].set =>
            /\ (options[r].networkTransferSyntax_ = "EXS_Unknown") = (in[r].netTransferPrefer = "")
            /\ (options[r].networkTransferSyntaxOut_ = "EXS_Unknown") = (in[r].netTransferPropose = "")
            /\ (options[r].writeTransferSyntax_ = "EXS_Unknown") = (in[r].writeTransfer = "")

\* the transfer syntax a string stands for: the one it names, none otherwise
NamedSyntax(s) ==
    IF s = "1.2.840.10008.1.2" THEN "EXS_LittleEndianImplicit"
    ELSE IF s = "1.2.840.10008.1.2.1" THEN "EXS_LittleEndianExplicit"
    ELSE "EXS_Unknown"

(* C21: once HandleQueryRetrieve has set the provider options, the        *)
(* configuration holds exactly the peers of the input (none for the empty *)
(* list), and each of the three transfer syntaxes is the one its own      *)
(* input string names: EXS_Unknown exactly when that string is empty or   *)
(* names no transfer syntax, whatever the other two strings are.          *)
C21_TransferSyntaxResolution ==
    \A r \in Runs :
        options[r].set =>
            /\ options[r].cfgPeers = input[r].peers
            /\ options[r].networkTransferSyntax_ = NamedSyntax(input[r].netTransferPrefer)
            /\ options[r].networkTransferSyntaxOut_ = NamedSyntax(input[r].netTransferPropose)
            /\ options[r].writeTransferSyntax_ = NamedSyntax(input[r].writeTransfer)

C21_Witness ==
    \E r \in Runs :
        /\ options[r].set /\ pc[r] = "loop"
        /\ input[r].peers = <<>>
        /\ input[r].netTransferPrefer = ""
        /\ input[r].netTransferPropose = "1.2.840.10008.1.2.1"
        /\ input[r].writeTransfer = "no-such-syntax"
        /\ options[r].networkTransferSyntax_ = "EXS_Unknown"
        /\ options[r].networkTransferSyntaxOut_ = "EXS_LittleEndianExplicit"
        /\ options[r].writeTransferSyntax_ = "EXS_Unknown"

---------------------------------------------------------------------------
(* C22: whenever a run is in the accept loop of HandleQueryRetrieve, the  *)
(* provider options are maxAssociations 128, get-support disabled,        *)
(* shutdown by the peer allowed, and the network handle of the options is *)
(* the requestor handle this run created, whatever the input is.          *)
C22_FixedOptions ==
    \A r \in Runs :
        (pc[r] = "loop" /\ mode[r] = "queryRetrieve") =>
            /\ options[r].maxAssociations_ = MaxAssociations
            /\ options[r].disableGetSupport_
            /\ options[r].allowShutdown_
            /\ options[r].net_ \in 1..Len(handles)
            /\ options[r].net_ = reqNet[r]
            /\ handles[options[r].net_].role = "requestor"
            /\ handles[options[r].net_].owner = r

---------------------------------------------------------------------------
(* C23: a handler whose accept loop was entered and has exited returns    *)
(* true, whatever condition ended the loop: the step that leaves the loop *)
(* takes Execute on to ShutdownNetwork.                                   *)
C23_HandlerReturnsTrue ==
    [][\A r \in Runs :
          (pc[r] = "loop" /\ pc'[r] # "loop") => pc'[r] = "shutdown"]_vars

---------------------------------------------------------------------------
(* C29: every run that has returned without calling ShutdownNetwork has   *)
(* set a terminal error.                                                  *)
C29_NoSilentExit ==
    \A r \in Runs :
        (Done(r) /\ ~Called(r, "ShutdownNetwork")) => Len(errors[r]) > 0

---------------------------------------------------------------------------
(* C30: the step in which a run's ShutdownNetwork calls                   *)
(* OFStandard::shutdownNetwork is never taken while another run holds a   *)
(* live acceptor handle or is in its accept loop.                         *)
C30_SubsystemShutdownAlone ==
    [][\A r \in Runs :
          (\E i \in NewCalls(r) : trace'[r][i] = "OFStandard::shutdownNetwork") =>
              \A s \in Runs \ {r} :
                  pc[s] # "loop" /\ LiveHandlesOf(s, "acceptor") = {}]_vars

---------------------------------------------------------------------------
(* C24: the transport handles of a run are its own: every handle was      *)
(* waited on and released by the run that created it only, and the handle *)
(* references a run holds (its acceptor, its requestor, the network of    *)
(* its provider options) name handles that run created.                   *)
OwnHandle(r, h) == h \in 1..Len(handles) => handles[h].owner = r

C24_HandlesOwnedByRun ==
    /\ \A h \in 1..Len(handles) :
          /\ \A i \in 1..Len(handles[h].waitedBy) : handles[h].waitedBy[i] = handles[h].owner
          /\ \A i \in 1..Len(handles[h].droppedBy) : handles[h].droppedBy[i] = handles[h].owner
    /\ \A r \in Runs :
          OwnHandle(r, net[r]) /\ OwnHandle(r, reqNet[r]) /\ OwnHandle(r, options[r].net_)

\* both runs have created an acceptor, have waited on it and have released it
C24_Witness ==
    \A r \in Runs :
        \E h \in HandlesOf(r, "acceptor") :
            /\ handles[h].waitedBy = <<r>>
            /\ handles[h].droppedBy = <<r>>
            /\ \E g \in HandlesOf(r, "requestor") : g # h

---------------------------------------------------------------------------
(* C27: every waitForAssociation of a run is made on the acceptor handle  *)
(* that InitializeNetwork created in the same run: the step that makes    *)
(* the call records it on exactly that handle, never on a requestor       *)
(* handle and never on a reference that names no created handle.          *)
C27_WaitOnOwnAcceptor ==
    [][\A r \in Runs :
          waits'[r] # waits[r] =>
              \E h \in HandlesOf(r, "acceptor") :
                  /\ h = net[r]
                  /\ CalledBefore(r, Len(trace'[r]), "ASC_initializeNetwork:acceptor")
                  /\ handles'[h].waitedBy = Append(handles[h].waitedBy, r)
                  /\ \A g \in 1..Len(handles) \ {h} :
                        handles'[g].waitedBy = handles[g].waitedBy]_vars

\* a query/retrieve run that holds a requestor has waited on its acceptor
C27_Witness ==
    \E r \in Runs :
        /\ mode[r] = "queryRetrieve" /\ waits[r] > 0
        /\ HandlesOf(r, "requestor") # {}
        /\ \E h \in HandlesOf(r, "acceptor") : Len(handles[h].waitedBy) = waits[r]

---------------------------------------------------------------------------
(* C26: a run in the accept loop leaves it only by a waitForAssociation   *)
(* that returned a bad condition: it stays in the loop through every      *)
(* other step and after every good condition, and a run whose wait        *)
(* returned a bad condition eventually finishes.                          *)
LastCondBad(r) == Len(conds[r]) > 0 /\ ~conds[r][Len(conds[r])]

C26_LoopUntilBad ==
    /\ [][\A r \in Runs :
            pc[r] = "loop" =>
                /\ waits'[r] = waits[r] => pc'[r] = "loop"
                /\ waits'[r] # waits[r] =>
                      /\ Len(conds'[r]) = Len(conds[r]) + 1
                      /\ conds'[r][Len(conds'[r])] => pc'[r] = "loop"
                      /\ ~conds'[r][Len(conds'[r])] => pc'[r] \in {"shutdown", "done"}]_vars
    /\ \A r \in Runs : LastCondBad(r) ~> Done(r)

\* a run that stayed in the loop after a good condition and has finished
\* after a bad one
C26_Witness ==
    \E r \in Runs :
        /\ Len(conds[r]) > 1 /\ conds[r][1] /\ LastCondBad(r)
        /\ Done(r)

---------------------------------------------------------------------------
(* C28 as stated: after a bad association condition the store-only loop   *)
(* continues in one variant and terminates in the other, and the          *)
(* requestor is created in HandleQueryRetrieve by one variant and in      *)
(* InitializeNetwork by the other.                                        *)
C28_Original ==
    \A r \in Runs :
        (pc[r] = "loop" /\ mode[r] = "storeOnly") =>
            /\ (LoopOutcome("cc", FALSE) = "loop") # (LoopOutcome("part0", FALSE) = "loop")
            /\ RequestorInQueryRetrieve("cc") # RequestorInQueryRetrieve("part0")

(* C28: both variants leave the store-only accept loop at the first bad   *)
(* association condition; they disagree on what follows it                *)
(* (ServerAsyncWorker.cc ends the run without ShutdownNetwork, part_000   *)
(* goes on to ShutdownNetwork), and on where the requestor network is     *)
(* created (ServerAsyncWorker.cc in HandleQueryRetrieve, part_000 in      *)
(* InitializeNetwork).                                                    *)
C28_VariantsDisagree ==
    /\ [](\A r \in Runs :
            (pc[r] = "loop" /\ mode[r] = "storeOnly") =>
                /\ LoopOutcome("cc", FALSE) = "done"
                /\ LoopOutcome("part0", FALSE) = "shutdown"
                /\ RequestorInQueryRetrieve("cc") /\ ~RequestorInQueryRetrieve("part0"))
    /\ [][\A r \in Runs :
            /\ ( /\ pc[r] = "loop" /\ mode[r] = "storeOnly"
                 /\ Len(conds'[r]) > Len(conds[r])
                 /\ ~conds'[r][Len(conds'[r])] ) =>
                    /\ pc'[r] # "loop"
                    /\ (pc'[r] = "done") = (variant = "cc")
                    /\ (pc'[r] = "shutdown") = (variant = "part0")
            /\ (\E i \in NewCalls(r) : trace'[r][i] = "ASC_initializeNetwork:requestor") =>
                    /\ (pc[r] = "queryRetrieve") = (variant = "cc")
                    /\ (pc[r] = "network") = (variant = "part0")]_vars

\* a store-only run of part_000 that left the loop after a bad condition and
\* went through ShutdownNetwork, next to a run that created a requestor
C28_Witness ==
    \E r \in Runs, q \in Runs :
        /\ mode[r] = "storeOnly" /\ LastCondBad(r) /\ Done(r)
        /\ Called(r, "ShutdownNetwork")
        /\ HandlesOf(q, "requestor") # {}

---------------------------------------------------------------------------
(* C25: HandleDirectory checks, in this order, that the dictionary is     *)
(* loaded, that the directory exists and that it is writable, and fails   *)
(* at the first check that does not hold, with that check's message; the  *)
(* existence check is made exactly when the normalized directory is not   *)
(* ".", the writability check on every directory that passed the earlier  *)
(* checks, "." included.                                                  *)
\* the calls run r makes in the step, and the errors it sets
StepCallsOf(r) == SubSeq(trace'[r], Len(trace[r]) + 1, Len(trace'[r]))

StepErrorsOf(r) == SubSeq(errors'[r], Len(errors[r]) + 1, Len(errors'[r]))

Has(s, e) == \E i \in 1..Len(s) : s[i] = e

C25_DirectoryChecks ==
    [][\A r \in Runs :
          (pc[r] = "directory" /\ pc'[r] # "directory") =>
              LET c == StepCallsOf(r)
                  e == StepErrorsOf(r)
                  d == checkedDir'[r]
              IN /\ c[1] = "HandleDirectory" /\ c[2] = "isDictionaryLoaded"
                 /\ ~dictLoaded =>
                       /\ ~Has(c, "dirExists") /\ ~Has(c, "isWriteable")
                       /\ Len(e) = 1 /\ e[1].text = "No data dictionary loaded"
                       /\ pc'[r] = "done"
                 /\ dictLoaded =>
                       /\ d = normalizeDirName(d)
                       /\ Has(c, "dirExists") = (d # CurrentDir)
                       /\ (Has(c, "dirExists") /\ ~dirExists(fs, d)) =>
                             /\ ~Has(c, "isWriteable")
                             /\ Len(e) = 1
                             /\ e[1].text = "Specified output directory does not exist: "
                             /\ pc'[r] = "done"
                       /\ ~(Has(c, "dirExists") /\ ~dirExists(fs, d)) =>
                             /\ Has(c, "isWriteable")
                             /\ FirstIndex(c, "dirExists") < FirstIndex(c, "isWriteable")
                             /\ ~isWriteable(fs, d) =>
                                   /\ Len(e) = 1
                                   /\ e[1].text = "Specified output directory is not writeable: "
                                   /\ pc'[r] = "done"
                             /\ isWriteable(fs, d) => Len(e) = 0 /\ pc'[r] = "network"]_vars

---------------------------------------------------------------------------
(* C31: every step that executes ShutdownNetwork calls                    *)
(* OFStandard::shutdownNetwork exactly once, after ASC_dropNetwork and as *)
(* its last call, also when the release returned a bad condition and an   *)
(* error was set; the teardown is called in no other step.                *)
C31_TeardownInEveryShutdown ==
    [][\A r \in Runs :
          LET shut == \E i \in NewCalls(r) : trace'[r][i] = "ShutdownNetwork"
              tear == {i \in NewCalls(r) : trace'[r][i] = "OFStandard::shutdownNetwork"}
          IN /\ pc[r] = "shutdown" /\ pc'[r] # "shutdown" => shut
             /\ ~shut => tear = {}
             /\ shut =>
                   /\ tear = {Len(trace'[r])}
                   /\ \E j \in NewCalls(r) :
                         j < Len(trace'[r]) /\ trace'[r][j] = "ASC_dropNetwork"
                   /\ Len(errors'[r]) > Len(errors[r]) =>
                         \E j \in NewCalls(r) :
                             j < Len(trace'[r]) /\ trace'[r][j] = "SetErrorJson"
                   /\ pc'[r] = "done"]_vars

\* a run whose release failed in ShutdownNetwork and that made the teardown
C31_Witness ==
    \E r \in Runs :
        /\ Done(r) /\ DropFailed(r)
        /\ net[r] \in 1..Len(handles) /\ handles[net[r]].drops = 0
        /\ trace[r][Len(trace[r])] = "OFStandard::shutdownNetwork"
        /\ trace[r][Len(trace[r]) - 1] = "SetErrorJson"

====
